---- MODULE Spec2Model ----
(***************************************************************************)
(* A model of tiered-map (src/src/lib.rs): TieredMap, a chain of tiers,    *)
(* each owning a local HashMap and borrowing its parent, and Iter, the     *)
(* chained iterator.                                                       *)
(*                                                                         *)
(* Tiers live in an arena of MaxTiers slots, kept in the order in which    *)
(* the values were created: slot i holds the i-th oldest value that has    *)
(* not been dropped.  Option<T> is a sequence of length at most one: <<>>  *)
(* is None and <<x>> is Some(x).  A HashMap is the function from the set   *)
(* of its keys to their values.  K is 1..NumKeys and V is 1..NumVals.      *)
(***************************************************************************)
EXTENDS Integers, Sequences, FiniteSets, TLC

\* ---- bounds ----
MaxTiers == 3
NumKeys == 2
NumVals == 2
MaxLen == 2
MaxEntries == 3
MaxCap == 3
MaxReserve == 1
MaxSeq == 2

Ids == 1..MaxTiers
Keys == 1..NumKeys
Vals == 1..NumVals
\* the sequences of pairs given to from_iter and extend
Pairs == Keys \X Vals
PairSeqs == UNION {[1..n -> Pairs] : n \in 0..MaxSeq}

VARIABLES
  tiers,   \* arena slot -> TieredMap { parent, map, parent_cap, parent_size }
  live,    \* the slots that hold a value that has not been dropped
  borrow,  \* slot -> Option<slot>: the tier whose shared borrow the value holds
  ret,     \* the last call and what it returned
  it       \* the Iter in use, if any

vars == <<tiers, live, borrow, ret, it>>

None == <<>>
Some(x) == <<x>>

\* ---- std::collections::HashMap ----
EmptyMap == <<>>
MapGet(m, k) == IF k \in DOMAIN m THEN Some(m[k]) ELSE None
MapInsert(m, k, v) == [x \in (DOMAIN m) \cup {k} |-> IF x = k THEN v ELSE m[x]]
MapLen(m) == Cardinality(DOMAIN m)
MapIsEmpty(m) == DOMAIN m = {}
\* HashMap::from_iter and HashMap::extend: the pairs are inserted in order
RECURSIVE MapExtend_KeepFirst(_, _)
MapExtend_KeepFirst(m, s) ==
  IF s = <<>> THEN m
  ELSE IF Head(s)[1] \in DOMAIN m THEN MapExtend_KeepFirst(m, Tail(s))
  ELSE MapExtend_KeepFirst(MapInsert(m, Head(s)[1], Head(s)[2]), Tail(s))
RECURSIVE MapExtend(_, _)
MapExtend(m, s) ==
  IF s = <<>> THEN m
  ELSE MapExtend(MapInsert(m, Head(s)[1], Head(s)[2]), Tail(s))
\* HashMap::capacity is promised to be at least len(), and after reserve(n) at
\* least len() + n; the model gives a table the least capacity that keeps the
\* promises: 0 when new, grown by an insert only when full, kept by clone
MapGrow(cap, m) == IF cap < MapLen(m) THEN MapLen(m) ELSE cap
MapReserve(cap, m, n) == IF cap < MapLen(m) + n THEN MapLen(m) + n ELSE cap

\* ---- struct TieredMap and the tm! macro ----
\* (map_cap is map.capacity(), here that of a table just built from map)
tm(parent, map, parent_cap, parent_size) ==
  [parent |-> parent, map |-> map, map_cap |-> MapLen(map),
   parent_cap |-> parent_cap, parent_size |-> parent_size]

\* the content of a slot that holds no value
Vacant == tm(None, EmptyMap, 0, 0)

\* TieredMap::capacity
capacity(t) == tiers[t].parent_cap + tiers[t].map_cap

\* TieredMap::len
len_LocalOnly(t) == MapLen(tiers[t].map)
len(t) == tiers[t].parent_size + MapLen(tiers[t].map)

\* TieredMap::get
RECURSIVE get_ParentFirst(_, _)
get_ParentFirst(t, k) ==
  LET up == IF tiers[t].parent = None THEN None
            ELSE get_ParentFirst(tiers[t].parent[1], k)
  IN IF up # None THEN up ELSE MapGet(tiers[t].map, k)
RECURSIVE get(_, _)
get(t, k) ==
  IF MapGet(tiers[t].map, k) # None THEN MapGet(tiers[t].map, k)
  ELSE IF tiers[t].parent = None THEN None
  ELSE get(tiers[t].parent[1], k)

\* TieredMap::contains_key
RECURSIVE contains_key(_, _)
contains_key(t, k) ==
  \/ k \in DOMAIN tiers[t].map
  \/ IF tiers[t].parent = None THEN FALSE
     ELSE contains_key(tiers[t].parent[1], k)

\* Index::index: it returns a value, or expect("no entry found for key") panics
Panicked == [panic |-> TRUE, val |-> None]
Returned(v) == [panic |-> FALSE, val |-> Some(v)]
index_LocalOnly(t, k) ==
  IF MapGet(tiers[t].map, k) = None THEN Panicked
  ELSE Returned(MapGet(tiers[t].map, k)[1])
index(t, k) == IF get(t, k) = None THEN Panicked ELSE Returned(get(t, k)[1])

\* the items a run of iter() over t returns before its first None
RECURSIVE IterAll(_)
IterAll(t) ==
  {<<k, tiers[t].map[k]>> : k \in DOMAIN tiers[t].map}
  \cup (IF tiers[t].parent = None \/ MapIsEmpty(tiers[tiers[t].parent[1]].map)
        THEN {}
        ELSE IterAll(tiers[t].parent[1]))

\* PartialEq::eq
eq(a, b) ==
  /\ len(a) = len(b)
  /\ \A e \in IterAll(a) : get(b, e[1]) # None /\ e[2] = get(b, e[1])[1]

\* the number of entries held by the live values (bounded by MaxEntries)
RECURSIVE SumLen(_)
SumLen(S) ==
  IF S = {} THEN 0
  ELSE LET x == CHOOSE y \in S : TRUE IN MapLen(tiers[x].map) + SumLen(S \ {x})
Entries == SumLen(live)

\* the capacity the live values hold beyond their entries (bounded by
\* MaxReserve)
RECURSIVE SumSpare(_)
SumSpare(S) ==
  IF S = {} THEN 0
  ELSE LET x == CHOOSE y \in S : TRUE
       IN (tiers[x].map_cap - MapLen(tiers[x].map)) + SumSpare(S \ {x})
SpareCap == SumSpare(live)

\* ---- the borrow discipline the signatures impose ----
\* new_scope(&self) and iter(&self) return values that hold a shared borrow of
\* self; insert(&mut self) and a move or drop of the value need it unborrowed.
Borrowed(t) ==
  \/ \E u \in live : borrow[u] = Some(t)
  \/ it.active /\ it.src = t

\* the slot a new value is put in
FreshId == Cardinality(live) + 1

NoRet == [op |-> "none", self |-> 0, k |-> 0, v |-> 0, res |-> None]
\* no Iter in use.  An Iter { map, iter } is kept with the tier it was made
\* from (src), the items its next() has returned (yielded), the size_hint()
\* read before each call of next() up to the first None (hints), and whether
\* the last call of next() returned None (done)
NoIter == [active |-> FALSE, src |-> 0, map |-> 0, iter |-> {},
           yielded |-> <<>>, hints |-> <<>>, done |-> FALSE]

Init ==
  /\ tiers = [i \in Ids |-> Vacant]
  /\ live = {}
  /\ borrow = [i \in Ids |-> None]
  /\ ret = NoRet
  /\ it = NoIter

\* TieredMap::new, with_hasher, default
New ==
  /\ live # Ids
  /\ tiers' = [tiers EXCEPT ![FreshId] = tm(None, EmptyMap, 0, 0)]
  /\ live' = live \cup {FreshId}
  /\ borrow' = [borrow EXCEPT ![FreshId] = None]
  /\ ret' = NoRet
  /\ UNCHANGED it

\* TieredMap::insert: the tiers after the call, and the value it returns
insert_AlsoParent(t, k, v) ==
  [i \in Ids |->
     IF i = t \/ tiers[t].parent = Some(i)
     THEN [tiers[i] EXCEPT !.map = MapInsert(tiers[i].map, k, v),
                           !.map_cap = MapGrow(@, MapInsert(tiers[i].map, k, v))]
     ELSE tiers[i]]
insert(t, k, v) ==
  [tiers EXCEPT ![t].map = MapInsert(tiers[t].map, k, v),
                ![t].map_cap = MapGrow(@, MapInsert(tiers[t].map, k, v))]
insertRet_Visible(t, k) == get(t, k)
insertRet(t, k) == MapGet(tiers[t].map, k)

Insert(t, k, v) ==
  /\ t \in live
  /\ ~Borrowed(t)                 \* &mut self
  /\ k \in DOMAIN tiers[t].map \/ Entries < MaxEntries
  /\ tiers' = insert(t, k, v)
  /\ ret' = [op |-> "insert", self |-> t, k |-> k, v |-> v, res |-> insertRet(t, k)]
  /\ UNCHANGED <<live, borrow, it>>

\* TieredMap::new_scope: the value it returns
RECURSIVE new_scope_NoEmptyCheck(_)
new_scope_NoEmptyCheck(t) ==
  IF tiers[t].parent # None
  THEN new_scope_NoEmptyCheck(tiers[t].parent[1])
  ELSE tm(Some(t), EmptyMap, capacity(t), len(t))
new_scope_NoElision(t) == tm(Some(t), EmptyMap, capacity(t), len(t))
RECURSIVE new_scope_LocalSize(_)
new_scope_LocalSize(t) ==
  IF tiers[t].parent # None /\ MapIsEmpty(tiers[t].map)
  THEN new_scope_LocalSize(tiers[t].parent[1])
  ELSE tm(Some(t), EmptyMap, capacity(t), MapLen(tiers[t].map))
RECURSIVE new_scope(_)
new_scope(t) ==
  IF tiers[t].parent # None /\ MapIsEmpty(tiers[t].map)
  THEN new_scope(tiers[t].parent[1])
  ELSE tm(Some(t), EmptyMap, capacity(t), len(t))

NewScope(t) ==
  /\ t \in live
  /\ live # Ids
  /\ tiers' = [tiers EXCEPT ![FreshId] = new_scope(t)]
  /\ live' = live \cup {FreshId}
  /\ borrow' = [borrow EXCEPT ![FreshId] = Some(t)]
  /\ ret' = [op |-> "new_scope", self |-> t, k |-> 0, v |-> 0, res |-> Some(FreshId)]
  /\ UNCHANGED it

\* Clone::clone: the value it returns
clone(t) ==
  [tm(tiers[t].parent, tiers[t].map, capacity(t), len(t))
     EXCEPT !.map_cap = tiers[t].map_cap]

Clone(t) ==
  /\ t \in live
  /\ live # Ids
  /\ len(t) <= MaxLen
  /\ capacity(t) <= MaxCap
  /\ SpareCap + (tiers[t].map_cap - MapLen(tiers[t].map)) <= MaxReserve
  /\ Entries + MapLen(tiers[t].map) <= MaxEntries
  /\ tiers' = [tiers EXCEPT ![FreshId] = clone(t)]
  /\ live' = live \cup {FreshId}
  /\ borrow' = [borrow EXCEPT ![FreshId] = borrow[t]]
  /\ ret' = NoRet
  /\ UNCHANGED it

\* a value goes out of scope: the younger values move down one slot
Shift(t, i) == IF i > t THEN i - 1 ELSE i
ShiftOpt(t, o) == IF o = None THEN None ELSE Some(Shift(t, o[1]))
Drop(t) ==
  /\ t \in live
  /\ ~Borrowed(t)
  /\ tiers' = [i \in Ids |->
       IF i < t THEN tiers[i]
       ELSE IF i + 1 \in live
            THEN [tiers[i + 1] EXCEPT !.parent = ShiftOpt(t, tiers[i + 1].parent)]
            ELSE Vacant]
  /\ live' = live \ {Cardinality(live)}
  /\ borrow' = [i \in Ids |->
       IF i < t THEN borrow[i]
       ELSE IF i + 1 \in live THEN ShiftOpt(t, borrow[i + 1])
            ELSE None]
  /\ ret' = NoRet
  /\ it' = IF it.active
           THEN [it EXCEPT !.src = Shift(t, it.src), !.map = Shift(t, it.map)]
           ELSE it

\* TieredMap::with_capacity, with_capacity_and_hasher
WithCapacity(n) ==
  /\ live # Ids
  /\ SpareCap + n <= MaxReserve
  /\ tiers' = [tiers EXCEPT ![FreshId] =
                 [tm(None, EmptyMap, 0, 0) EXCEPT !.map_cap = n]]
  /\ live' = live \cup {FreshId}
  /\ borrow' = [borrow EXCEPT ![FreshId] = None]
  /\ ret' = NoRet
  /\ UNCHANGED it

\* TieredMap::reserve
Reserve(t, n) ==
  /\ t \in live
  /\ ~Borrowed(t)                 \* &mut self
  /\ SpareCap - tiers[t].map_cap
       + MapReserve(tiers[t].map_cap, tiers[t].map, n) <= MaxReserve
  /\ tiers' = [tiers EXCEPT ![t].map_cap = MapReserve(@, tiers[t].map, n)]
  /\ ret' = NoRet
  /\ UNCHANGED <<live, borrow, it>>

\* TieredMap::shrink_to_fit
ShrinkToFit(t) ==
  /\ t \in live
  /\ ~Borrowed(t)                 \* &mut self
  /\ tiers' = [tiers EXCEPT ![t].map_cap = MapLen(tiers[t].map)]
  /\ ret' = NoRet
  /\ UNCHANGED <<live, borrow, it>>

\* FromIterator::from_iter: the value it returns
from_iter_KeepFirst(s) == tm(None, MapExtend_KeepFirst(EmptyMap, s), 0, 0)
from_iter(s) == tm(None, MapExtend(EmptyMap, s), 0, 0)

FromIter(s) ==
  /\ live # Ids
  /\ Entries + MapLen(MapExtend(EmptyMap, s)) <= MaxEntries
  /\ tiers' = [tiers EXCEPT ![FreshId] = from_iter(s)]
  /\ live' = live \cup {FreshId}
  /\ borrow' = [borrow EXCEPT ![FreshId] = None]
  /\ ret' = [op |-> "from_iter", self |-> 0, k |-> 0, v |-> 0,
             res |-> Some(FreshId), seq |-> s]
  /\ UNCHANGED it

\* Extend::extend: the tiers after the call, which inserts each pair in order
extend(t, s) ==
  [tiers EXCEPT ![t].map = MapExtend(tiers[t].map, s),
                ![t].map_cap = MapGrow(@, MapExtend(tiers[t].map, s))]

Extend(t, s) ==
  /\ t \in live
  /\ ~Borrowed(t)                 \* &mut self
  /\ Entries - MapLen(tiers[t].map) + MapLen(MapExtend(tiers[t].map, s))
       <= MaxEntries
  /\ tiers' = extend(t, s)
  /\ ret' = NoRet
  /\ UNCHANGED <<live, borrow, it>>

\* ---- struct Iter ----
\* TieredMap::iter
iter(t) ==
  [active |-> TRUE, src |-> t, map |-> t, iter |-> DOMAIN tiers[t].map,
   yielded |-> <<>>, hints |-> <<>>, done |-> FALSE]

IterStart(t) ==
  /\ t \in live
  /\ ~it.active
  /\ it' = iter(t)
  /\ ret' = NoRet
  /\ UNCHANGED <<tiers, live, borrow>>

\* Iter::size_hint, which ExactSizeIterator::len returns
size_hint(i) ==
  (IF tiers[i.map].parent = None THEN 0 ELSE len(tiers[i.map].parent[1]))
  + Cardinality(i.iter)

\* Iter::next returning Some((k, v)) from the hash_map::Iter of tier m, whose
\* items left are rest; the order of a hash_map::Iter is unspecified
Yield(m, rest, k) ==
  [it EXCEPT !.map = m, !.iter = rest \ {k},
             !.yielded = Append(@, <<k, tiers[m].map[k]>>),
             !.hints = IF it.done THEN @ ELSE Append(@, size_hint(it)),
             !.done = FALSE]
\* Iter::next returning None, the Iter being left at tier m
Finish(m) ==
  [it EXCEPT !.map = m, !.iter = {},
             !.hints = IF it.done THEN @ ELSE Append(@, size_hint(it)),
             !.done = TRUE]

\* Iter::next
IterNext_StopAtBoundary ==
  /\ it.active
  /\ IF it.iter # {}
     THEN \E k \in it.iter : it' = Yield(it.map, it.iter, k)
     ELSE it' = Finish(it.map)
  /\ UNCHANGED <<tiers, live, borrow, ret>>
IterNext ==
  /\ it.active
  /\ IF it.iter # {}
     THEN \E k \in it.iter : it' = Yield(it.map, it.iter, k)
     ELSE IF tiers[it.map].parent = None
     THEN it' = Finish(it.map)
     ELSE LET p == tiers[it.map].parent[1] IN
          IF MapIsEmpty(tiers[p].map)
          THEN it' = Finish(p)
          ELSE \E k \in DOMAIN tiers[p].map : it' = Yield(p, DOMAIN tiers[p].map, k)
  /\ UNCHANGED <<tiers, live, borrow, ret>>

\* the Iter goes out of scope
IterEnd ==
  /\ it.active
  /\ it' = NoIter
  /\ UNCHANGED <<tiers, live, borrow, ret>>

Next ==
  \/ New
  \/ \E t \in Ids, k \in Keys, v \in Vals : Insert(t, k, v)
  \/ \E t \in Ids : NewScope(t)
  \/ \E t \in Ids : Clone(t)
  \/ \E t \in Ids : Drop(t)

Spec == Init /\ [][Next]_vars

\* the same, with an Iter
NextIter ==
  \/ Next
  \/ \E t \in Ids : IterStart(t)
  \/ IterNext
  \/ IterEnd

SpecIter == Init /\ [][NextIter]_vars

\* Spec with the bulk operations
NextBulk ==
  \/ Next
  \/ \E s \in PairSeqs : FromIter(s)
  \/ \E t \in Ids, s \in PairSeqs : Extend(t, s)

SpecBulk == Init /\ [][NextBulk]_vars

\* Spec with the operations on the capacity of the local table
NextCap ==
  \/ Next
  \/ \E n \in 1..MaxReserve : WithCapacity(n)
  \/ \E t \in Ids, n \in 1..MaxReserve : Reserve(t, n)
  \/ \E t \in Ids : ShrinkToFit(t)

SpecCap == Init /\ [][NextCap]_vars

\* the constructors, insert, extend, new_scope and iteration, without Clone
NextPlain ==
  \/ New
  \/ \E n \in 1..MaxReserve : WithCapacity(n)
  \/ \E s \in PairSeqs : FromIter(s)
  \/ \E t \in Ids, k \in Keys, v \in Vals : Insert(t, k, v)
  \/ \E t \in Ids, s \in PairSeqs : Extend(t, s)
  \/ \E t \in Ids : NewScope(t)
  \/ \E t \in Ids : Drop(t)
  \/ \E t \in Ids : IterStart(t)
  \/ IterNext
  \/ IterEnd

SpecPlain == Init /\ [][NextPlain]_vars

\* ---- the chain of a tier, for the properties ----
RECURSIVE Chain(_)
Chain(t) ==
  IF tiers[t].parent = None THEN <<t>> ELSE <<t>> \o Chain(tiers[t].parent[1])
Local(t, k) == k \in DOMAIN tiers[t].map
\* the positions of Chain(t) whose local table holds k
Holders(t, k) == {i \in 1..Len(Chain(t)) : Local(Chain(t)[i], k)}
First(S) == CHOOSE i \in S : \A j \in S : i <= j
HasParent(t) == tiers[t].parent # None
Parent(t) == tiers[t].parent[1]

\* C1: get(K) on a tier returns the value of the nearest tier of its chain,
\* from the tier towards the root, whose local table holds K: the tier's own
\* value if K is local, else what its parent returns, and None without a parent.
C1_GetNearest ==
  \A t \in live, k \in Keys :
    /\ get(t, k) = IF Holders(t, k) = {} THEN None
                   ELSE Some(tiers[Chain(t)[First(Holders(t, k))]].map[k])
    /\ Local(t, k) => get(t, k) = Some(tiers[t].map[k])
    /\ ~Local(t, k) /\ HasParent(t) => get(t, k) = get(Parent(t), k)
    /\ ~Local(t, k) /\ ~HasParent(t) => get(t, k) = None
\* a tier that shadows one key of its parent with another value and sees
\* another key through its parent
C1_Witness ==
  \E t \in live, k1, k2 \in Keys :
    /\ HasParent(t)
    /\ Local(t, k1) /\ get(Parent(t), k1) # None
    /\ get(Parent(t), k1) # get(t, k1)
    /\ ~Local(t, k2) /\ get(t, k2) # None

\* C2: insert on a tier changes the local table of that tier only: every
\* other tier keeps its fields, its len() and its get(K) for every key K.
C2_InsertFrame ==
  [][\A t \in Ids, k \in Keys, v \in Vals :
       Insert(t, k, v) =>
         \A u \in live \ {t} :
           /\ tiers'[u] = tiers[u]
           /\ len(u)' = len(u)
           /\ \A kk \in Keys : get(u, kk)' = get(u, kk)]_vars
\* an insert into a scope shadowed a key of its parent with another value,
\* while a sibling scope of the same parent is alive
C2_Witness ==
  /\ ret.op = "insert"
  /\ HasParent(ret.self)
  /\ get(Parent(ret.self), ret.k) # None
  /\ get(Parent(ret.self), ret.k) # Some(ret.v)
  /\ \E u \in live \ {ret.self} :
       /\ tiers[u].parent = tiers[ret.self].parent
       /\ borrow[u] = borrow[ret.self]

\* C3: right after S = T.new_scope(), S.get(K) = T.get(K) for every key K, also
\* when T is an empty tier that is skipped; and whatever is inserted into S
\* later, S.get(K) is the local value of S if S holds K and T.get(K) if not.
C3_ScopeSeesParent ==
  /\ ret.op = "new_scope" =>
       \A k \in Keys : get(ret.res[1], k) = get(ret.self, k)
  /\ \A s \in live :
       borrow[s] # None =>
         \A k \in Keys :
           get(s, k) = IF Local(s, k) THEN Some(tiers[s].map[k])
                       ELSE get(borrow[s][1], k)
\* a scope made from an empty tier that was skipped, which holds a key of its
\* own and sees another key through the tier it was made from
C3_Witness ==
  \E s \in live, k1, k2 \in Keys :
    /\ borrow[s] # None
    /\ tiers[s].parent # borrow[s]
    /\ Local(s, k1)
    /\ ~Local(s, k2) /\ get(s, k2) # None

\* C4: right after S = T.new_scope(), S.len() = T.len(), for a root or a
\* scope, empty or not.
C4_ScopeLen ==
  ret.op = "new_scope" => len(ret.res[1]) = len(ret.self)
\* new_scope was called on an empty tier with a parent (which is skipped) and
\* a len() above 0
C4_Witness ==
  /\ ret.op = "new_scope"
  /\ HasParent(ret.self)
  /\ MapIsEmpty(tiers[ret.self].map)
  /\ len(ret.self) > 0
  /\ tiers[ret.res[1]].parent # Some(ret.self)

\* the items an Iter has returned
YieldedItems == {it.yielded[i] : i \in 1..Len(it.yielded)}
\* the keys some tier of the chain of t holds
ChainKeys(t) == {k \in Keys : Holders(t, k) # {}}

\* C5: a full iteration yields each visible key once: of a key held by
\* several tiers of the chain, only the pair of the innermost tier is yielded.
C5_EachKeyOnce ==
  it.active /\ it.done =>
    /\ \A i, j \in 1..Len(it.yielded) :
         i # j => it.yielded[i][1] # it.yielded[j][1]
    /\ \A i \in 1..Len(it.yielded) :
         Some(it.yielded[i][2]) = get(it.src, it.yielded[i][1])

\* C6: the set of pairs a full iteration of M yields is the set of
\* (K, M.get(K)) for the keys K inserted into some tier of the chain of M.
C6_IterIsGet ==
  it.active /\ it.done =>
    YieldedItems = {<<k, get(it.src, k)[1]>> : k \in ChainKeys(it.src)}

\* C7: at every step of an iteration the count size_hint() reports is the
\* number of items the Iter yields from then on: before each call of next(),
\* and after the call that returns None.
C7_ExactSizeHint ==
  it.active /\ it.done =>
    /\ \A i \in 1..Len(it.hints) : it.hints[i] = Len(it.yielded) - (i - 1)
    /\ size_hint(it) = 0

\* C8: two tiered maps whose get(K) agree for every key K compare equal,
\* whatever the shapes of their chains.
C8_EqByContents ==
  \A a, b \in live :
    (\A k \in Keys : get(a, k) = get(b, k)) => eq(a, b)

\* C9: insert(k, v) on T returns the value T's own local table held for k, or
\* None if k was not local to T, also when an ancestor holds k; and after it
\* T.get(k) = v.
C9_InsertReturnsLocal ==
  [][\A t \in Ids, k \in Keys, v \in Vals :
       Insert(t, k, v) =>
         /\ ret'.res = IF Local(t, k) THEN Some(tiers[t].map[k]) ELSE None
         /\ get(t, k)' = Some(v)]_vars
\* an insert of a key that was not local but visible through the parent
\* returned None
C9_Witness ==
  /\ ret.op = "insert"
  /\ ret.res = None
  /\ HasParent(ret.self)
  /\ get(Parent(ret.self), ret.k) # None
  /\ get(ret.self, ret.k) = Some(ret.v)

\* C10: T[K] returns what T.get(K) holds when some tier of the chain of T
\* holds K, and panics exactly when no tier of the chain holds K.
C10_IndexOrPanic ==
  \A t \in live, k \in Keys :
    /\ Holders(t, k) # {} => ~index(t, k).panic /\ index(t, k).val = get(t, k)
    /\ Holders(t, k) = {} => index(t, k).panic
\* a scope indexed by a key only its parent holds, and by a key no tier holds
C10_Witness ==
  \E t \in live, k1, k2 \in Keys :
    /\ HasParent(t)
    /\ ~Local(t, k1) /\ Holders(t, k1) # {} /\ ~index(t, k1).panic
    /\ Holders(t, k2) = {} /\ index(t, k2).panic

\* C11: from_iter over a sequence of pairs yields a root (no parent,
\* parent_size 0, parent_cap 0) that holds what a fresh root holds after an
\* insert of each pair in order: len() is the number of distinct keys of the
\* sequence and get(K) is the last value the sequence gives for K.
KeysOf(s) == {s[i][1] : i \in 1..Len(s)}
LastIndex(s, k) ==
  CHOOSE i \in 1..Len(s) : s[i][1] = k /\ \A j \in (i + 1)..Len(s) : s[j][1] # k
C11_FromIter ==
  ret.op = "from_iter" =>
    LET r == ret.res[1]
        s == ret.seq
    IN /\ tiers[r].parent = None
       /\ tiers[r].parent_size = 0
       /\ tiers[r].parent_cap = 0
       /\ len(r) = Cardinality(KeysOf(s))
       /\ \A k \in Keys :
            get(r, k) = IF k \in KeysOf(s) THEN Some(s[LastIndex(s, k)][2])
                        ELSE None
\* from_iter was given a sequence that names a key twice, with different values
C11_Witness ==
  /\ ret.op = "from_iter"
  /\ \E i, j \in 1..Len(ret.seq) :
       i < j /\ ret.seq[i][1] = ret.seq[j][1] /\ ret.seq[i][2] # ret.seq[j][2]

\* C12: right after S = T.new_scope(), S.capacity() = T.capacity(), also for
\* an empty tier T with a parent whose local table had capacity reserved.
C12_ScopeCapacity ==
  ret.op = "new_scope" => capacity(ret.res[1]) = capacity(ret.self)

\* C13: new_scope on a tier with a parent and an empty local table returns a
\* child whose parent is the first ancestor with a non-empty local table, or the
\* root if all ancestors are empty; so every tier that is some tier's parent is
\* the root or has a non-empty local table.
\* the first tier of the chain of t that is not an empty tier with a parent
ElisionTarget(t) ==
  Chain(t)[First({i \in 1..Len(Chain(t)) :
                    ~HasParent(Chain(t)[i]) \/ ~MapIsEmpty(tiers[Chain(t)[i]].map)})]
C13_Elision ==
  /\ ret.op = "new_scope" =>
       tiers[ret.res[1]].parent = Some(ElisionTarget(ret.self))
  /\ \A t \in live :
       HasParent(t) =>
         ~HasParent(Parent(t)) \/ ~MapIsEmpty(tiers[Parent(t)].map)
\* new_scope was called on an empty tier whose parent is not empty, and the
\* child's parent is that parent
C13_Witness ==
  /\ ret.op = "new_scope"
  /\ HasParent(ret.self)
  /\ MapIsEmpty(tiers[ret.self].map)
  /\ ~MapIsEmpty(tiers[Parent(ret.self)].map)
  /\ tiers[ret.res[1]].parent = tiers[ret.self].parent

\* C14: an iteration visits the tiers innermost to outermost: every entry of a
\* tier's local table is yielded before any entry of its parent, each tier of
\* the chain is visited once, and next() returns None for the first time only
\* when the local table of the tier without a parent is exhausted, and returns
\* None from then on.
\* the number of entries of the first n tiers of the chain c
RECURSIVE SumChain(_, _)
SumChain(c, n) ==
  IF n = 0 THEN 0 ELSE SumChain(c, n - 1) + MapLen(tiers[c[n]].map)
LocalItems(t) == {<<k, tiers[t].map[k]>> : k \in DOMAIN tiers[t].map}
\* the items yielded at the positions from..to
YieldedAt(from, to) == {it.yielded[i] : i \in from..to}
IterInOrder ==
  it.active =>
    LET c == Chain(it.src)
        p == CHOOSE i \in 1..Len(c) : c[i] = it.map
    IN /\ \E i \in 1..Len(c) : c[i] = it.map
       /\ \A j \in 1..(p - 1) :
            YieldedAt(SumChain(c, j - 1) + 1, SumChain(c, j)) = LocalItems(c[j])
       /\ Len(it.yielded) = SumChain(c, p) - Cardinality(it.iter)
       /\ YieldedAt(SumChain(c, p - 1) + 1, Len(it.yielded))
            = {e \in LocalItems(it.map) : e[1] \notin it.iter}
       /\ it.done => ~HasParent(it.map) /\ it.iter = {}
C14_IterOrder ==
  /\ []IterInOrder
  /\ [][it.done /\ it'.active => it'.done /\ it'.yielded = it.yielded]_vars
\* an iteration over a scope and its parent, both with entries, has ended
C14_Witness ==
  /\ it.active /\ it.done
  /\ HasParent(it.src)
  /\ ~MapIsEmpty(tiers[it.src].map)
  /\ ~MapIsEmpty(tiers[Parent(it.src)].map)
  /\ Len(it.yielded) >= 2

\* C15: the parent_size cached in a tier created by new_scope is the number of
\* distinct keys visible through its parent (the keys K for which the parent's
\* get(K) is present), also when a key is stored in more than one tier of the
\* chain, and len() of the new tier is its local table size plus parent_size.
VisibleKeys(t) == {k \in Keys : get(t, k) # None}
C15_ParentSizeDistinct ==
  ret.op = "new_scope" =>
    LET s == ret.res[1]
    IN /\ tiers[s].parent_size = Cardinality(VisibleKeys(Parent(s)))
       /\ len(s) = MapLen(tiers[s].map) + tiers[s].parent_size

\* C16: for every tiered map built by the constructors, insert, extend and
\* new_scope, len() is the sum of the local table sizes of the tiers of its
\* chain, which is the number of pairs a full iteration of it yields.
C16_LenIsChainSum ==
  /\ \A t \in live : len(t) = SumChain(Chain(t), Len(Chain(t)))
  /\ it.active /\ it.done => Len(it.yielded) = len(it.src)
\* a full iteration of a scope that stores a key its parent stores too
C16_Witness ==
  /\ it.active /\ it.done
  /\ HasParent(it.src)
  /\ \E k \in Keys : Local(it.src, k) /\ Local(Parent(it.src), k)
  /\ Len(it.yielded) = len(it.src)
  /\ len(it.src) >= 2

\* C17: clone() is observationally the identity: the clone c of a tier t has
\* c.len() = t.len(), c.capacity() = t.capacity(), c.get(k) = t.get(k) for
\* every key k and c == t, and a scope created from c has the len() (the
\* parent_size, which is also what its iterators report as remaining) of a
\* scope created from t.
C17_CloneIdentity ==
  [][\A t \in live, c \in Ids :
       c = FreshId /\ Clone(t) =>
         /\ (len(c))' = len(t)
         /\ (capacity(c))' = capacity(t)
         /\ \A k \in Keys : (get(c, k))' = get(t, k)
         /\ (eq(c, t))'
         /\ (new_scope(c).parent_size)' = new_scope(t).parent_size]_vars

\* C18: equality is reflexive: every live tiered map is equal to itself, also
\* when an inner tier shadows a key of an outer tier with another value.
C18_EqReflexive == \A m \in live : eq(m, m)

\* C19: equality is symmetric: for all live tiered maps a and b, a == b
\* exactly when b == a.
C19_EqSymmetric == \A a \in live, b \in live : eq(a, b) <=> eq(b, a)

====
